---- MODULE Spec2Model ----
(***************************************************************************)
(* A model of easypath (src/easypath/main.py): a flat library of file and  *)
(* folder operations over the native filesystem.  The filesystem is the    *)
(* only state.  It is modelled as a finite tree of entries (folders,       *)
(* regular files holding bytes, symbolic links holding a target path)      *)
(* below one root folder; every library function is an operator that maps  *)
(* a filesystem to the filesystem after the call, the exception it raised  *)
(* (if any), the value it returned and the lines it printed.               *)
(***************************************************************************)
EXTENDS Integers, Sequences, FiniteSets, TLC

VARIABLES
    fs,     \* the filesystem now: a function from the paths that exist to entries
    pre,    \* the filesystem as it was before the last call
    last    \* the last call: its name, arguments, exception, return value, output

vars == <<fs, pre, last>>

(***************************************************************************)
(* Bounds of the model.                                                    *)
(***************************************************************************)
\* entries (below the root) of an initial filesystem
MaxEntries == 4
\* depth of the deepest entry of an initial filesystem and of a path argument
MaxDepth == 2
\* symbolic links the kernel follows in one path resolution before ELOOP
MaxLinks == 2
\* characters of an interactive answer
MaxAnswerLen == 1
\* nested calls of shutil.copytree before Python raises RecursionError
RecursionLimit == 4
\* characters of a text written to a file
MaxTextLen == 2
\* entries of the tree a sequence of calls builds
MaxSeqEntries == 3

\* names of directory entries
Names == {"a", "b.t"}

\* the folder every path of the model is relative to
Root == <<>>

RECURSIVE PathsOfLen(_)
PathsOfLen(n) ==
    IF n = 0 THEN {Root}
    ELSE {Append(p, x) : p \in PathsOfLen(n - 1), x \in Names}

\* the paths a call may be given: every path below the root, to MaxDepth names
ArgPaths == UNION {PathsOfLen(n) : n \in 1..MaxDepth}

\* the paths an initial symbolic link may point to (some exist, some do not)
LinkTargets == {<<"a">>, <<"b.t">>}

\* the contents an initial regular file may hold ("hi" and "a", as bytes)
InitData == {<<104, 105>>, <<97>>}

(***************************************************************************)
(* Paths (pathlib.PurePath: parent, name, joining).                        *)
(***************************************************************************)
Parent(p) == IF p = Root THEN Root ELSE SubSeq(p, 1, Len(p) - 1)

Name(p) == p[Len(p)]

IsPrefix(p, q) == Len(p) <= Len(q) /\ SubSeq(q, 1, Len(p)) = p

\* q with its leading p replaced by r (q is p or lies below p)
Rebase(q, p, r) == r \o SubSeq(q, Len(p) + 1, Len(q))

(***************************************************************************)
(* Entries.                                                                *)
(***************************************************************************)
Dir == [kind |-> "dir", data |-> <<>>, target |-> <<>>]

File(d) == [kind |-> "file", data |-> d, target |-> <<>>]

Link(t) == [kind |-> "link", data |-> <<>>, target |-> t]

\* what sits at the real location q: "none" when nothing does
Kind(f, q) == IF q \in DOMAIN f THEN f[q].kind ELSE "none"

\* the entries of f strictly below the real folder q
Below(f, q) == {x \in DOMAIN f : x # q /\ IsPrefix(q, x)}

\* the entries directly in the real folder q
ChildrenOf(f, q) == {x \in DOMAIN f : Len(x) = Len(q) + 1 /\ IsPrefix(q, x)}

(***************************************************************************)
(* Path resolution, as the kernel does it: every component but the last    *)
(* must resolve to a folder, symbolic links are followed (at most          *)
(* MaxLinks of them in one resolution).                                    *)
(***************************************************************************)
Resolved(q, n) == [err |-> "", path |-> q, left |-> n]

Failed(e) == [err |-> e, path |-> Root, left |-> 0]

RECURSIVE RealOf(_, _, _)
\* the real location p names, every link followed, the last component's too
RealOf(f, p, n) ==
    IF p = Root THEN Resolved(Root, n)
    ELSE LET d == RealOf(f, Parent(p), n) IN
         IF d.err # "" THEN d
         ELSE IF Kind(f, d.path) = "none" THEN Failed("ENOENT")
         ELSE IF Kind(f, d.path) # "dir" THEN Failed("ENOTDIR")
         ELSE LET q == Append(d.path, Name(p)) IN
              IF Kind(f, q) = "link"
              THEN IF d.left = 0 THEN Failed("ELOOP")
                   ELSE RealOf(f, f[q].target, d.left - 1)
              ELSE Resolved(q, d.left)

\* the real location of the entry p names, its last component not followed
EntryOf(f, p) ==
    IF p = Root THEN Resolved(Root, MaxLinks)
    ELSE LET Under(d) ==
                 IF d.err # "" THEN d
                 ELSE IF Kind(f, d.path) = "none" THEN Failed("ENOENT")
                 ELSE IF Kind(f, d.path) # "dir" THEN Failed("ENOTDIR")
                 ELSE Resolved(Append(d.path, Name(p)), d.left)
         IN  Under(RealOf(f, Parent(p), MaxLinks))

\* os.stat(p): the kind of what p names, links followed, or "none"
StatKind(f, p) ==
    LET KindAt(r) == IF r.err # "" THEN "none" ELSE Kind(f, r.path) IN
    KindAt(RealOf(f, p, MaxLinks))

\* os.lstat(p): the kind of the entry p names, or "none"
LStatKind(f, p) ==
    LET KindAt(r) == IF r.err # "" THEN "none" ELSE Kind(f, r.path) IN
    KindAt(EntryOf(f, p))

\* the real location behind p when p names something that exists
Real(f, p) == RealOf(f, p, MaxLinks).path

(***************************************************************************)
(* pathlib.Path queries: each follows links and answers False on ENOENT,   *)
(* ENOTDIR and ELOOP.                                                      *)
(***************************************************************************)
Exists(f, p) == StatKind(f, p) # "none"

IsDir(f, p) == StatKind(f, p) = "dir"

IsFile(f, p) == StatKind(f, p) = "file"

IsSymlink(f, p) == LStatKind(f, p) = "link"

\* the bytes of the regular file p names
DataOf(f, p) == f[Real(f, p)].data

(***************************************************************************)
(* System calls.  Each yields the filesystem after it and an errno name,   *)
(* "" when it succeeded; a failed call changes nothing.                    *)
(***************************************************************************)
Sys(f, e) == [fs |-> f, err |-> e]

Without(f, S) == [x \in DOMAIN f \ S |-> f[x]]

\* os.unlink(p): removes a file or a symbolic link, never a folder
Unlink(f, p) ==
    LET At(e) ==
            IF e.err # "" THEN Sys(f, e.err)
            ELSE IF Kind(f, e.path) = "none" THEN Sys(f, "ENOENT")
            ELSE IF Kind(f, e.path) = "dir" THEN Sys(f, "EISDIR")
            ELSE Sys(Without(f, {e.path}), "")
    IN  At(EntryOf(f, p))

\* os.rmdir(p): removes an empty folder; a link to a folder is not a folder
Rmdir(f, p) ==
    LET At(e) ==
            IF e.err # "" THEN Sys(f, e.err)
            ELSE IF Kind(f, e.path) = "none" THEN Sys(f, "ENOENT")
            ELSE IF Kind(f, e.path) # "dir" THEN Sys(f, "ENOTDIR")
            ELSE IF ChildrenOf(f, e.path) # {} THEN Sys(f, "ENOTEMPTY")
            ELSE Sys(Without(f, {e.path}), "")
    IN  At(EntryOf(f, p))

\* os.mkdir(p)
Mkdir(f, p) ==
    LET At(e) ==
            IF e.err # "" THEN Sys(f, e.err)
            ELSE IF Kind(f, e.path) # "none" THEN Sys(f, "EEXIST")
            ELSE Sys(f @@ (e.path :> Dir), "")
    IN  At(EntryOf(f, p))

\* os.symlink(t, p)
Symlink(f, t, p) ==
    LET At(e) ==
            IF e.err # "" THEN Sys(f, e.err)
            ELSE IF Kind(f, e.path) # "none" THEN Sys(f, "EEXIST")
            ELSE Sys(f @@ (e.path :> Link(t)), "")
    IN  At(EntryOf(f, p))

\* the subtree at the real location a, moved to the real location b
MoveTree(f, a, b) ==
    LET moved == {a} \cup Below(f, a)
        gone == moved \cup {b} \cup Below(f, b)
    IN  [x \in (DOMAIN f \ gone) \cup {Rebase(y, a, b) : y \in moved} |->
            IF x \in DOMAIN f \ gone THEN f[x]
            ELSE f[Rebase(x, b, a)]]

\* os.rename(old, new) (POSIX rename(2))
Rename(f, old, new) ==
    LET Between(a, b) ==
            IF a.err # "" THEN Sys(f, a.err)
            ELSE IF Kind(f, a.path) = "none" THEN Sys(f, "ENOENT")
            ELSE IF b.err # "" THEN Sys(f, b.err)
            ELSE IF a.path = b.path THEN Sys(f, "")
            ELSE IF Kind(f, a.path) = "dir" /\ IsPrefix(a.path, b.path)
                 THEN Sys(f, "EINVAL")
            ELSE IF Kind(f, b.path) = "none" THEN Sys(MoveTree(f, a.path, b.path), "")
            ELSE IF Kind(f, a.path) = "dir" /\ Kind(f, b.path) # "dir"
                 THEN Sys(f, "ENOTDIR")
            ELSE IF Kind(f, a.path) # "dir" /\ Kind(f, b.path) = "dir"
                 THEN Sys(f, "EISDIR")
            ELSE IF Kind(f, b.path) = "dir" /\ ChildrenOf(f, b.path) # {}
                 THEN Sys(f, "ENOTEMPTY")
            ELSE Sys(MoveTree(f, a.path, b.path), "")
    IN  Between(EntryOf(f, old), EntryOf(f, new))

\* os.listdir(p) / os.scandir(p): the names in the folder p, in the order
\* the filesystem enumerates them (ord: an order of all names)
ListDir(f, p, ord) ==
    LET d == Real(f, p) IN
    SelectSeq(ord, LAMBDA x : Append(d, x) \in DOMAIN f)

\* the orders a filesystem may enumerate names in
Orders == {o \in [1..Cardinality(Names) -> Names] : \A x \in Names : \E i \in DOMAIN o : o[i] = x}

(***************************************************************************)
(* Python over the system calls.                                           *)
(***************************************************************************)
\* the OSError subclass Python raises for an errno
ExcOf(e) ==
    CASE e = "" -> ""
      [] e = "ENOENT" -> "FileNotFoundError"
      [] e = "ENOTDIR" -> "NotADirectoryError"
      [] e = "EEXIST" -> "FileExistsError"
      [] e = "EISDIR" -> "IsADirectoryError"
      [] OTHER -> "OSError"

\* what a library function did: the filesystem after it, the exception that
\* left it ("" when it returned), its return value and the lines it printed
Res(f, x, r, o) == [fs |-> f, exc |-> x, ret |-> r, out |-> o]

None == "None"

RECURSIVE PathMkdir(_, _, _, _)
\* pathlib.Path.mkdir(parents=..., exist_ok=...)
PathMkdir(f, p, parents, exist_ok) ==
    LET Made(m) ==
            IF m.err = "" THEN m
            ELSE IF m.err = "ENOENT"
            THEN IF ~parents \/ p = Root THEN m
                 ELSE LET up == PathMkdir(f, Parent(p), TRUE, TRUE) IN
                      IF up.err # "" THEN up
                      ELSE PathMkdir(up.fs, p, FALSE, exist_ok)
            ELSE IF ~exist_ok \/ ~IsDir(f, p) THEN m
            ELSE Sys(f, "")
    IN  Made(Mkdir(f, p))

RECURSIVE IterateDirectories(_, _, _)
RECURSIVE DirsUnder(_, _, _, _)
\* pathlib's _RecursiveWildcardSelector._iterate_directories: p, then every
\* real folder below it; a symbolic link to a folder is not entered
IterateDirectories(f, p, ord) == <<p>> \o DirsUnder(f, p, ListDir(f, p, ord), ord)

DirsUnder(f, p, names, ord) ==
    IF names = <<>> THEN <<>>
    ELSE LET c == Append(p, Head(names)) IN
         (IF LStatKind(f, c) = "dir" THEN IterateDirectories(f, c, ord) ELSE <<>>)
            \o DirsUnder(f, p, Tail(names), ord)

\* the paths of the entries of the folder p: Path.iterdir()
IterDir(f, p, ord) ==
    LET Paths(names) == [i \in 1..Len(names) |-> Append(p, names[i])] IN
    Paths(ListDir(f, p, ord))

RECURSIVE Flatten(_)
Flatten(ss) == IF ss = <<>> THEN <<>> ELSE Head(ss) \o Flatten(Tail(ss))

\* a walk that stops at the entries directly in p
RglobShallow(f, p, ord) == IterDir(f, p, ord)

\* Path.rglob("*"): every entry of p and of each real folder below p
RglobAll(f, p, ord) ==
    IF ~IsDir(f, p) THEN <<>>
    ELSE LET EntriesOf(dirs) == Flatten([i \in 1..Len(dirs) |-> IterDir(f, dirs[i], ord)]) IN
         EntriesOf(IterateDirectories(f, p, ord))

\* how many of the paths of a sequence satisfy a test
CountIf(items, Test(_)) == Len(SelectSeq(items, Test))

count_files(f, p, recursive, ord) ==
    IF ~Exists(f, p) \/ ~IsDir(f, p) THEN 0
    ELSE CountIf(IF recursive THEN RglobAll(f, p, ord) ELSE IterDir(f, p, ord),
                 LAMBDA x : IsFile(f, x))

count_folders(f, p, recursive, ord) ==
    IF ~Exists(f, p) \/ ~IsDir(f, p) THEN 0
    ELSE CountIf(IF recursive THEN RglobAll(f, p, ord) ELSE IterDir(f, p, ord),
                 LAMBDA x : IsDir(f, x))

count_entries(f, p, recursive, ord) ==
    IF ~Exists(f, p) \/ ~IsDir(f, p) THEN 0
    ELSE Len(IF recursive THEN RglobAll(f, p, ord) ELSE IterDir(f, p, ord))

(***************************************************************************)
(* The interactive answer: input() gives the line typed, or raises         *)
(* EOFError when standard input is closed.                                 *)
(***************************************************************************)
AnswerChars == {"y", "Y", "n", " "}

RECURSIVE TextsOfLen(_, _)
TextsOfLen(C, n) ==
    IF n = 0 THEN {<<>>}
    ELSE {Append(t, c) : t \in TextsOfLen(C, n - 1), c \in C}

Inputs ==
    {[eof |-> TRUE, text |-> <<>>]} \cup
    {[eof |-> FALSE, text |-> t] : t \in UNION {TextsOfLen(AnswerChars, n) : n \in 0..MaxAnswerLen}}

\* the input a call that never prompts is paired with
NoInput == [eof |-> TRUE, text |-> <<>>]

IsSpace(c) == c = " "

RECURSIVE LStrip(_)
LStrip(t) == IF t # <<>> /\ IsSpace(Head(t)) THEN LStrip(Tail(t)) ELSE t

RECURSIVE RStrip(_)
RStrip(t) ==
    IF t # <<>> /\ IsSpace(t[Len(t)]) THEN RStrip(SubSeq(t, 1, Len(t) - 1)) ELSE t

\* str.strip()
Strip(t) == RStrip(LStrip(t))

LowerChar(c) == IF c = "Y" THEN "y" ELSE c

\* str.lower()
Lower(t) == [i \in 1..Len(t) |-> LowerChar(t[i])]

(***************************************************************************)
(* remove_folder                                                           *)
(***************************************************************************)
\* an answer taken for "y" whatever was typed
ChoiceYes(input) == <<"y">>

\* the answer as remove_folder compares it: input().strip().lower()
Choice(input) == Lower(Strip(input.text))

\* a prompt shown whenever confirm is set, force or not
AsksWhenConfirm(confirm, force) == confirm

\* remove_folder asks before deleting: "if confirm and not force"
Asks(confirm, force) == confirm /\ ~force

RECURSIVE remove_folder(_, _, _, _, _, _, _)
RECURSIVE RemoveItems(_, _, _, _)
\* the loop of remove_folder over the entries of path: a folder (or a link
\* to one) is removed by a forced recursive call, anything else unlinked
RemoveItems(f, items, ord, o) ==
    IF items = <<>> THEN Res(f, "", None, o)
    ELSE LET item == Head(items)
             Removed(r) ==
                 IF r.exc # "" THEN Res(r.fs, r.exc, None, o \o r.out)
                 ELSE RemoveItems(r.fs, Tail(items), ord, o \o r.out)
             Unlinked(u) ==
                 IF u.err # "" THEN Res(u.fs, ExcOf(u.err), None, o)
                 ELSE RemoveItems(u.fs, Tail(items), ord, o)
         IN  IF IsDir(f, item)
             THEN Removed(remove_folder(f, item, FALSE, TRUE, FALSE, NoInput, ord))
             ELSE Unlinked(Unlink(f, item))

remove_folder(f, path, confirm, force, dry_run, input, ord) ==
    IF ~Exists(f, path) \/ ~IsDir(f, path)
    THEN Res(f, "", None, <<<<"Folder does not exist or is not a directory", path>>>>)
    ELSE LET Emptied(r) ==
                 IF r.exc # "" THEN r
                 ELSE LET Gone(d) ==
                              IF d.err # "" THEN Res(d.fs, ExcOf(d.err), None, r.out)
                              ELSE Res(d.fs, "", None, r.out \o <<<<"Folder removed", path>>>>)
                      IN  Gone(Rmdir(r.fs, path))
             Prompted(prompt) ==
                 IF Asks(confirm, force) /\ input.eof THEN Res(f, "EOFError", None, prompt)
                 ELSE IF Asks(confirm, force) /\ Choice(input) # <<"y">>
                 THEN Res(f, "", None, prompt \o <<<<"Operation cancelled.">>>>)
                 ELSE IF dry_run
                 THEN Res(f, "", None,
                          prompt \o <<<<"[dry_run] Folder would be removed", path>>>>)
                 ELSE Emptied(RemoveItems(f, IterDir(f, path, ord), ord, prompt))
         IN  Prompted(IF Asks(confirm, force)
                      THEN <<<<"[remove_folder] Continue y/n", path,
                               count_files(f, path, TRUE, ord),
                               count_folders(f, path, TRUE, ord)>>>>
                      ELSE <<>>)

(***************************************************************************)
(* Files: open(p, "rb").read() and open(p, "wb").write(data); both follow  *)
(* a symbolic link at p.                                                   *)
(***************************************************************************)
OpenRead(f, p) ==
    LET At(r) ==
            IF r.err # "" THEN [err |-> r.err, data |-> <<>>]
            ELSE IF Kind(f, r.path) = "none" THEN [err |-> "ENOENT", data |-> <<>>]
            ELSE IF Kind(f, r.path) = "dir" THEN [err |-> "EISDIR", data |-> <<>>]
            ELSE [err |-> "", data |-> f[r.path].data]
    IN  At(RealOf(f, p, MaxLinks))

WriteFile(f, p, data) ==
    LET At(r) ==
            IF r.err # "" THEN Sys(f, r.err)
            ELSE IF Kind(f, r.path) = "dir" THEN Sys(f, "EISDIR")
            ELSE IF r.path \in DOMAIN f THEN Sys([f EXCEPT ![r.path] = File(data)], "")
            ELSE Sys(f @@ (r.path :> File(data)), "")
    IN  At(RealOf(f, p, MaxLinks))

(***************************************************************************)
(* shutil (copy2, copytree, move, rmtree) and os.makedirs.                 *)
(***************************************************************************)
\* the outcome of a Python call that returns nothing of interest
Py(f, x) == [fs |-> f, exc |-> x]

\* os.path.samefile, with its OSError read as False
SameFile(f, a, b) == Exists(f, a) /\ Exists(f, b) /\ Real(f, a) = Real(f, b)

\* shutil.copyfile(src, dst)
copyfile(f, src, dst) ==
    IF SameFile(f, src, dst) THEN Py(f, "SameFileError")
    ELSE LET Written(w) == Py(w.fs, ExcOf(w.err))
             Read(r) ==
                 IF r.err # "" THEN Py(f, ExcOf(r.err))
                 ELSE Written(WriteFile(f, dst, r.data))
         IN  Read(OpenRead(f, src))

\* shutil.copy2(src, dst): into dst when dst is a folder
copy2(f, src, dst) ==
    copyfile(f, src, IF IsDir(f, dst) THEN Append(dst, Name(src)) ELSE dst)

RECURSIVE makedirs(_, _, _)
\* os.makedirs(name, exist_ok=...)
makedirs(f, name, exist_ok) ==
    LET Above(up) ==
            IF up.exc \notin {"", "FileExistsError"} THEN up
            ELSE LET Made(m) ==
                         IF m.err = "" THEN Py(m.fs, "")
                         ELSE IF ~exist_ok \/ ~IsDir(up.fs, name)
                         THEN Py(up.fs, ExcOf(m.err))
                         ELSE Py(up.fs, "")
                 IN  Made(Mkdir(up.fs, name))
    IN  Above(IF Parent(name) # Root /\ ~Exists(f, Parent(name))
              THEN makedirs(f, Parent(name), exist_ok)
              ELSE Py(f, ""))

\* the errno of os.scandir(p) on something that is no folder
ScandirErr(f, p) ==
    LET At(r) ==
            IF r.err # "" THEN r.err
            ELSE IF Kind(f, r.path) = "none" THEN "ENOENT" ELSE "ENOTDIR"
    IN  At(RealOf(f, p, MaxLinks))

\* os.readlink(p)
ReadLink(f, p) == f[EntryOf(f, p).path].target

RECURSIVE copytree(_, _, _, _, _, _, _)
RECURSIVE CopyEntries(_, _, _, _, _, _, _, _, _)
\* the loop of shutil._copytree over the entries of src: an OSError of one
\* entry is recorded and the loop goes on; a RecursionError ends it
CopyEntries(f, src, dst, names, symlinks, dirs_exist_ok, ord, depth, errors) ==
    IF names = <<>> THEN Py(f, IF errors THEN "Error" ELSE "")
    ELSE LET s == Append(src, Head(names))
             d == Append(dst, Head(names))
             Linked(l) == Py(l.fs, ExcOf(l.err))
             Copied(step) ==
                 IF step.exc = "RecursionError" THEN step
                 ELSE CopyEntries(step.fs, src, dst, Tail(names), symlinks, dirs_exist_ok,
                                  ord, depth, errors \/ step.exc # "")
         IN  Copied(IF LStatKind(f, s) = "link" /\ symlinks
                    THEN Linked(Symlink(f, ReadLink(f, s), d))
                    ELSE IF IsDir(f, s)
                    THEN copytree(f, s, d, symlinks, dirs_exist_ok, ord, depth + 1)
                    ELSE copy2(f, s, d))

\* shutil.copytree(src, dst, symlinks=..., dirs_exist_ok=...), depth calls deep
copytree(f, src, dst, symlinks, dirs_exist_ok, ord, depth) ==
    IF depth > RecursionLimit THEN Py(f, "RecursionError")
    ELSE IF ~IsDir(f, src) THEN Py(f, ExcOf(ScandirErr(f, src)))
    ELSE LET Made(m) ==
                 IF m.exc # "" THEN m
                 ELSE CopyEntries(m.fs, src, dst, ListDir(f, src, ord), symlinks,
                                  dirs_exist_ok, ord, depth, FALSE)
         IN  Made(makedirs(f, dst, dirs_exist_ok))

\* shutil.rmtree(p) of a real folder: the folder and all below it, no link followed
rmtree(f, p) ==
    LET At(e) == Without(f, {e.path} \cup Below(f, e.path)) IN At(EntryOf(f, p))

\* shutil.move's way out when os.rename failed
MoveFallback(f, src, dst, real_dst, ord) ==
    LET Unlinked(u) == Py(u.fs, ExcOf(u.err))
        Linked(l) ==
            IF l.err # "" THEN Py(f, ExcOf(l.err)) ELSE Unlinked(Unlink(l.fs, src))
        CopiedTree(c) == IF c.exc # "" THEN c ELSE Py(rmtree(c.fs, src), "")
        CopiedFile(c) == IF c.exc # "" THEN c ELSE Unlinked(Unlink(c.fs, src))
    IN  IF IsSymlink(f, src) THEN Linked(Symlink(f, ReadLink(f, src), real_dst))
        ELSE IF IsDir(f, src)
        THEN IF IsPrefix(src, dst) THEN Py(f, "Error")
             ELSE CopiedTree(copytree(f, src, real_dst, TRUE, FALSE, ord, 0))
        ELSE CopiedFile(copy2(f, src, real_dst))

\* shutil.move(src, dst)
move(f, src, dst, ord) ==
    LET Renamed(r) == Py(r.fs, ExcOf(r.err))
        Into(real_dst) ==
            LET Tried(r) ==
                    IF r.err = "" THEN Py(r.fs, "")
                    ELSE MoveFallback(f, src, dst, real_dst, ord)
            IN  Tried(Rename(f, src, real_dst))
    IN  IF IsDir(f, dst) /\ SameFile(f, src, dst) THEN Renamed(Rename(f, src, dst))
        ELSE IF IsDir(f, dst) /\ Exists(f, Append(dst, Name(src))) THEN Py(f, "Error")
        ELSE Into(IF IsDir(f, dst) THEN Append(dst, Name(src)) ELSE dst)

(***************************************************************************)
(* copy_folder, move_folder, copy_file, move_file                          *)
(***************************************************************************)
\* an existing destination overwritten without being asked to
RefusesNothing(f, dst, overwrite) == FALSE

\* the conflict every copy and move stops at: "if dst_path.exists() and not overwrite"
Refuses(f, dst, overwrite) == Exists(f, dst) /\ ~overwrite

copy_folder(f, src, dst, overwrite, ord) ==
    IF ~Exists(f, src) \/ ~IsDir(f, src)
    THEN Res(f, "", None, <<<<"Source folder does not exist or is not a directory", src>>>>)
    ELSE IF Refuses(f, dst, overwrite)
    THEN Res(f, "", None, <<<<"Destination folder already exists", dst>>>>)
    ELSE LET Copied(c) ==
                 IF c.exc # "" THEN Res(c.fs, c.exc, None, <<>>)
                 ELSE Res(c.fs, "", None, <<<<"Folder copied", src, dst>>>>)
         IN  Copied(copytree(f, src, dst, FALSE, overwrite, ord, 0))

move_folder(f, src, dst, overwrite, ord) ==
    IF ~Exists(f, src) \/ ~IsDir(f, src)
    THEN Res(f, "", None, <<<<"Source folder does not exist or is not a directory", src>>>>)
    ELSE IF Refuses(f, dst, overwrite)
    THEN Res(f, "", None, <<<<"Destination folder already exists", dst>>>>)
    ELSE LET Cleared(r) ==
                 IF r.exc # "" THEN r
                 ELSE LET Moved(m) ==
                              IF m.exc # "" THEN Res(m.fs, m.exc, None, r.out)
                              ELSE Res(m.fs, "", None,
                                       r.out \o <<<<"Folder moved", src, dst>>>>)
                      IN  Moved(move(r.fs, src, dst, ord))
         IN  Cleared(IF Exists(f, dst) /\ overwrite
                     THEN remove_folder(f, dst, FALSE, TRUE, FALSE, NoInput, ord)
                     ELSE Res(f, "", None, <<>>))

move_file(f, src, dst, overwrite, ord) ==
    IF ~Exists(f, src) \/ ~IsFile(f, src)
    THEN Res(f, "", None, <<<<"Source file does not exist or is not a file", src>>>>)
    ELSE IF Refuses(f, dst, overwrite)
    THEN Res(f, "", None, <<<<"Destination file already exists", dst>>>>)
    ELSE LET Moved(m) ==
                 IF m.exc # "" THEN Res(m.fs, m.exc, None, <<>>)
                 ELSE Res(m.fs, "", None, <<<<"File moved", src, dst>>>>)
             Cleared(u) ==
                 IF u.err # "" THEN Res(u.fs, ExcOf(u.err), None, <<>>)
                 ELSE Moved(move(u.fs, src, dst, ord))
         IN  Cleared(IF Exists(f, dst) /\ overwrite THEN Unlink(f, dst) ELSE Sys(f, ""))

copy_file(f, src, dst, overwrite) ==
    IF ~Exists(f, src) \/ ~IsFile(f, src)
    THEN Res(f, "", None, <<<<"Source file does not exist or is not a file", src>>>>)
    ELSE IF Refuses(f, dst, overwrite)
    THEN Res(f, "", None, <<<<"Destination file already exists", dst>>>>)
    ELSE LET Copied(c) ==
                 IF c.exc # "" THEN Res(c.fs, c.exc, None, <<>>)
                 ELSE Res(c.fs, "", None, <<<<"File copied", src, dst>>>>)
             Cleared(u) ==
                 IF u.err # "" THEN Res(u.fs, ExcOf(u.err), None, <<>>)
                 ELSE Copied(copy2(u.fs, src, dst))
         IN  Cleared(IF Exists(f, dst) /\ overwrite THEN Unlink(f, dst) ELSE Sys(f, ""))

(***************************************************************************)
(* create_folder, ensure_dir, remove_file, rename_folder, rename_file,     *)
(* create_symlink                                                          *)
(***************************************************************************)
ensure_dir(f, path, parents, exist_ok) ==
    LET Made(m) ==
            IF m.err # "" THEN Res(m.fs, ExcOf(m.err), None, <<>>)
            ELSE Res(m.fs, "", path, <<>>)
    IN  Made(PathMkdir(f, path, parents, exist_ok))

ensure_parent_dir(f, path, parents, exist_ok) ==
    LET Made(m) ==
            IF m.err # "" THEN Res(m.fs, ExcOf(m.err), None, <<>>)
            ELSE Res(m.fs, "", Parent(path), <<>>)
    IN  Made(PathMkdir(f, Parent(path), parents, exist_ok))

create_folder(f, path) ==
    LET Made(m) ==
            IF m.err # "" THEN Res(m.fs, ExcOf(m.err), None, <<>>)
            ELSE Res(m.fs, "", None, <<<<"Folder created", path>>>>)
    IN  IF ~Exists(f, path) THEN Made(PathMkdir(f, path, TRUE, TRUE))
        ELSE Res(f, "", None, <<<<"Folder already exists", path>>>>)

remove_file(f, path, missing_ok) ==
    LET Unlinked(u) ==
            IF u.err # "" THEN Res(u.fs, ExcOf(u.err), None, <<>>)
            ELSE Res(u.fs, "", None, <<<<"File removed", path>>>>)
    IN  IF Exists(f, path) /\ IsFile(f, path) THEN Unlinked(Unlink(f, path))
        ELSE Res(f, "", None,
                 IF ~missing_ok THEN <<<<"File does not exist or is not a file", path>>>>
                 ELSE <<>>)

rename_folder(f, old, new) ==
    IF ~Exists(f, old) \/ ~IsDir(f, old)
    THEN Res(f, "", None, <<<<"Folder to rename does not exist or is not a directory", old>>>>)
    ELSE IF Exists(f, new)
    THEN Res(f, "", None, <<<<"New folder name already exists", new>>>>)
    ELSE LET Renamed(r) ==
                 IF r.err # "" THEN Res(r.fs, ExcOf(r.err), None, <<>>)
                 ELSE Res(r.fs, "", None, <<<<"Folder renamed", old, new>>>>)
         IN  Renamed(Rename(f, old, new))

\* a rename that does not look at what new names
rename_file_unchecked(f, old, new) ==
    IF ~Exists(f, old) \/ ~IsFile(f, old)
    THEN Res(f, "", None, <<<<"File to rename does not exist or is not a file", old>>>>)
    ELSE LET Renamed(r) ==
                 IF r.err # "" THEN Res(r.fs, ExcOf(r.err), None, <<>>)
                 ELSE Res(r.fs, "", None, <<<<"File renamed", old, new>>>>)
         IN  Renamed(Rename(f, old, new))

rename_file(f, old, new) ==
    IF ~Exists(f, old) \/ ~IsFile(f, old)
    THEN Res(f, "", None, <<<<"File to rename does not exist or is not a file", old>>>>)
    ELSE IF Exists(f, new)
    THEN Res(f, "", None, <<<<"New file name already exists", new>>>>)
    ELSE LET Renamed(r) ==
                 IF r.err # "" THEN Res(r.fs, ExcOf(r.err), None, <<>>)
                 ELSE Res(r.fs, "", None, <<<<"File renamed", old, new>>>>)
         IN  Renamed(Rename(f, old, new))

create_symlink(f, target, link, overwrite, ord) ==
    LET Unlinked(u) == Res(u.fs, ExcOf(u.err), None, <<>>)
        Cleared(r) ==
            IF r.exc # "" THEN r
            ELSE LET Linked(l) ==
                         IF l.err # "" THEN Res(l.fs, ExcOf(l.err), None, r.out)
                         ELSE Res(l.fs, "", None,
                                  r.out \o <<<<"Symlink created", link, target>>>>)
                 IN  Linked(Symlink(r.fs, target, link))
    IN  Cleared(IF Exists(f, link) /\ overwrite
                THEN IF IsDir(f, link)
                     THEN remove_folder(f, link, FALSE, TRUE, FALSE, NoInput, ord)
                     ELSE Unlinked(Unlink(f, link))
                ELSE Res(f, "", None, <<>>))

(***************************************************************************)
(* get_folder_size, get_folder_info                                        *)
(***************************************************************************)
RECURSIVE SumSizes(_, _)
\* the sum of st_size over the paths of a sequence that are regular files
SumSizes(f, items) ==
    IF items = <<>> THEN 0
    ELSE (IF IsFile(f, Head(items)) THEN Len(DataOf(f, Head(items))) ELSE 0)
            + SumSizes(f, Tail(items))

get_folder_size(f, path, ord) ==
    IF ~Exists(f, path) \/ ~IsDir(f, path) THEN 0
    ELSE SumSizes(f, RglobAll(f, path, ord))

\* the name a path ends in: PurePath.name, "" for the root
PathName(p) == IF p = Root THEN "" ELSE Name(p)

FolderInfo(name, path, size, exists, file_count, folder_count) ==
    [name |-> name, path |-> path, size |-> size, exists |-> exists,
     file_count |-> file_count, folder_count |-> folder_count]

get_folder_info(f, path, ord) ==
    IF ~Exists(f, path) \/ ~IsDir(f, path)
    THEN Res(f, "", FolderInfo("", path, 0, FALSE, 0, 0),
             <<<<"Path does not exist or is not a directory", path>>>>)
    ELSE Res(f, "",
             FolderInfo(PathName(path), path, get_folder_size(f, path, ord), TRUE,
                        count_files(f, path, TRUE, ord),
                        count_folders(f, path, TRUE, ord)),
             <<<<"Total size of folder", path>>, <<"Folder info", path>>>>)

(***************************************************************************)
(* Text: a str is a sequence of code points, a file holds bytes.           *)
(***************************************************************************)
LF == 10
CR == 13

\* str.encode(encoding, "strict")
EncodeChar(c, encoding) ==
    IF c < 128 THEN [ok |-> TRUE, bytes |-> <<c>>]
    ELSE IF encoding = "utf-8"
    THEN [ok |-> TRUE, bytes |-> <<192 + (c \div 64), 128 + (c % 64)>>]
    ELSE [ok |-> FALSE, bytes |-> <<>>]

RECURSIVE Encode(_, _)
Encode(t, encoding) ==
    IF t = <<>> THEN [ok |-> TRUE, bytes |-> <<>>]
    ELSE LET h == EncodeChar(Head(t), encoding)
             r == Encode(Tail(t), encoding)
         IN  [ok |-> h.ok /\ r.ok, bytes |-> h.bytes \o r.bytes]

RECURSIVE Decode(_, _)
\* bytes.decode(encoding, "strict")
Decode(b, encoding) ==
    IF b = <<>> THEN [ok |-> TRUE, text |-> <<>>]
    ELSE IF b[1] < 128
    THEN LET r == Decode(Tail(b), encoding) IN
         [ok |-> r.ok, text |-> <<b[1]>> \o r.text]
    ELSE IF encoding = "utf-8" /\ b[1] >= 194 /\ b[1] < 224 /\ Len(b) >= 2
            /\ b[2] >= 128 /\ b[2] < 192
    THEN LET r == Decode(SubSeq(b, 3, Len(b)), encoding) IN
         [ok |-> r.ok, text |-> <<(b[1] - 192) * 64 + (b[2] - 128)>> \o r.text]
    ELSE [ok |-> FALSE, text |-> <<>>]

\* what a text file writes for "\n": os.linesep when newline is None, "\n"
\* when it is "" or "\n", newline itself otherwise
WrittenNewline(newline, linesep) ==
    IF newline = None THEN linesep
    ELSE IF newline = <<>> THEN <<LF>>
    ELSE newline

RECURSIVE TranslateOut(_, _)
TranslateOut(t, nl) ==
    IF t = <<>> THEN <<>>
    ELSE (IF Head(t) = LF THEN nl ELSE <<Head(t)>>) \o TranslateOut(Tail(t), nl)

RECURSIVE UniversalNewlines(_)
\* reading with newline=None: "\r\n" and "\r" both read as "\n"
UniversalNewlines(t) ==
    IF t = <<>> THEN <<>>
    ELSE IF Head(t) = CR /\ Len(t) >= 2 /\ t[2] = LF
    THEN <<LF>> \o UniversalNewlines(SubSeq(t, 3, Len(t)))
    ELSE IF Head(t) = CR THEN <<LF>> \o UniversalNewlines(Tail(t))
    ELSE <<Head(t)>> \o UniversalNewlines(Tail(t))

read_text(f, path, encoding) ==
    LET Decoded(d) ==
            IF ~d.ok THEN Res(f, "UnicodeDecodeError", None, <<>>)
            ELSE Res(f, "", UniversalNewlines(d.text), <<>>)
        Opened(r) ==
            IF r.err # "" THEN Res(f, ExcOf(r.err), None, <<>>)
            ELSE Decoded(Decode(r.data, encoding))
    IN  Opened(OpenRead(f, path))

write_text(f, path, data, encoding, newline, parents, linesep) ==
    LET Opened(o, e) ==
            IF o.err # "" THEN Res(o.fs, ExcOf(o.err), None, <<>>)
            ELSE IF ~e.ok THEN Res(o.fs, "UnicodeEncodeError", None, <<>>)
            ELSE Res(WriteFile(o.fs, path, e.bytes).fs, "", path, <<>>)
        Ensured(up) ==
            IF up.exc # "" THEN up
            ELSE Opened(WriteFile(up.fs, path, <<>>),
                        Encode(TranslateOut(data, WrittenNewline(newline, linesep)),
                               encoding))
    IN  Ensured(IF parents THEN ensure_parent_dir(f, path, TRUE, TRUE)
                ELSE Res(f, "", None, <<>>))

(***************************************************************************)
(* Enumeration: list_folders, list_files, list_paths, glob_paths,          *)
(* rglob_paths, find_files_by_extension, find_files_by_name                *)
(***************************************************************************)
\* the characters of a name
CharsOf(x) == IF x = "a" THEN <<"a">> ELSE <<"b", ".", "t">>

RECURSIVE GlobMatch(_, _)
\* fnmatch of one name against one pattern component ("*": any characters)
GlobMatch(pat, txt) ==
    IF pat = <<>> THEN txt = <<>>
    ELSE IF Head(pat) = "*"
    THEN GlobMatch(Tail(pat), txt) \/ (txt # <<>> /\ GlobMatch(pat, Tail(txt)))
    ELSE txt # <<>> /\ Head(pat) = Head(txt) /\ GlobMatch(Tail(pat), Tail(txt))

IsWildcard(pat) == \E i \in DOMAIN pat : pat[i] = "*"

IsAbsolute(pat) == pat # <<>> /\ Head(pat) = "/"

\* the name a literal pattern spells, "" when it spells none of the model's
NameOf(pat) == IF \E x \in Names : CharsOf(x) = pat
               THEN CHOOSE x \in Names : CharsOf(x) = pat ELSE ""

\* one selector of pathlib applied to the folder d: _WildcardSelector lists
\* the entries that match, _PreciseSelector yields d/name when it exists
SelectIn(f, d, pat, ord) ==
    IF IsWildcard(pat)
    THEN LET names == SelectSeq(ListDir(f, d, ord), LAMBDA x : GlobMatch(pat, CharsOf(x))) IN
         [i \in 1..Len(names) |-> Append(d, names[i])]
    ELSE IF NameOf(pat) # "" /\ Exists(f, Append(d, NameOf(pat)))
    THEN <<Append(d, NameOf(pat))>>
    ELSE <<>>

\* Path.glob(pattern) for a pattern of one component: the paths, or the exception
Glob(f, p, pat, ord) ==
    IF pat = <<>> THEN [exc |-> "ValueError", paths |-> <<>>]
    ELSE IF IsAbsolute(pat) THEN [exc |-> "NotImplementedError", paths |-> <<>>]
    ELSE IF ~IsDir(f, p) THEN [exc |-> "", paths |-> <<>>]
    ELSE [exc |-> "", paths |-> SelectIn(f, p, pat, ord)]

\* Path.rglob(pattern) for a pattern of at most one component
Rglob(f, p, pat, ord) ==
    IF IsAbsolute(pat) THEN [exc |-> "NotImplementedError", paths |-> <<>>]
    ELSE IF ~IsDir(f, p) THEN [exc |-> "", paths |-> <<>>]
    ELSE LET Under(dirs) ==
                 [exc |-> "",
                  paths |-> IF pat = <<>> THEN dirs
                            ELSE Flatten([i \in 1..Len(dirs) |->
                                             SelectIn(f, dirs[i], pat, ord)])]
         IN  Under(IterateDirectories(f, p, ord))

\* [x.name for x in paths]
NamesOf(paths) == [i \in 1..Len(paths) |-> PathName(paths[i])]

NotADirMsg(path) == <<<<"Path does not exist or is not a directory", path>>>>

list_folders(f, path, recursive, ord) ==
    IF Exists(f, path) /\ IsDir(f, path)
    THEN Res(f, "",
             NamesOf(SelectSeq(IF recursive THEN RglobAll(f, path, ord)
                               ELSE IterDir(f, path, ord),
                               LAMBDA x : IsDir(f, x))),
             <<>>)
    ELSE Res(f, "", <<>>, NotADirMsg(path))

list_files(f, path, recursive, ord) ==
    IF ~Exists(f, path) \/ ~IsDir(f, path) THEN Res(f, "", <<>>, NotADirMsg(path))
    ELSE Res(f, "",
             NamesOf(SelectSeq(IF recursive THEN RglobAll(f, path, ord)
                               ELSE IterDir(f, path, ord),
                               LAMBDA x : IsFile(f, x))),
             <<<<"Files in", path>>>>)

list_paths(f, path, recursive, include_files, include_dirs, ord) ==
    IF ~Exists(f, path) \/ ~IsDir(f, path) THEN Res(f, "", <<>>, NotADirMsg(path))
    ELSE Res(f, "",
             NamesOf(SelectSeq(IF recursive THEN RglobAll(f, path, ord)
                               ELSE IterDir(f, path, ord),
                               LAMBDA x : \/ IsFile(f, x) /\ include_files
                                          \/ IsDir(f, x) /\ include_dirs)),
             <<>>)

glob_paths(f, path, pattern, ord) ==
    IF ~Exists(f, path) \/ ~IsDir(f, path) THEN Res(f, "", <<>>, NotADirMsg(path))
    ELSE LET g == Glob(f, path, pattern, ord) IN
         IF g.exc # "" THEN Res(f, g.exc, None, <<>>)
         ELSE Res(f, "", NamesOf(g.paths), <<>>)

rglob_paths(f, path, pattern, ord) ==
    IF ~Exists(f, path) \/ ~IsDir(f, path) THEN Res(f, "", <<>>, NotADirMsg(path))
    ELSE LET g == Rglob(f, path, pattern, ord) IN
         IF g.exc # "" THEN Res(f, g.exc, None, <<>>)
         ELSE Res(f, "", NamesOf(g.paths), <<>>)

find_files_by_extension(f, path, extension, ord) ==
    LET ext == IF extension # <<>> /\ Head(extension) = "." THEN extension
               ELSE <<".">> \o extension
        g == Rglob(f, path, <<"*">> \o ext, ord)
    IN  IF g.exc # "" THEN Res(f, g.exc, None, <<>>)
        ELSE Res(f, "", NamesOf(SelectSeq(g.paths, LAMBDA x : IsFile(f, x))), <<>>)

find_files_by_name(f, path, filename, ord) ==
    LET g == Rglob(f, path, filename, ord) IN
    IF g.exc # "" THEN Res(f, g.exc, None, <<>>)
    ELSE Res(f, "", NamesOf(SelectSeq(g.paths, LAMBDA x : IsFile(f, x))), <<>>)

(***************************************************************************)
(* The state machine: a call of a library function is one step.            *)
(***************************************************************************)
\* the entries an initial filesystem may hold
InitEntries == {Dir} \cup {File(d) : d \in InitData} \cup {Link(t) : t \in LinkTargets}

\* the places of f where one more entry fits: in a folder, not deeper than MaxDepth
Slots(f) ==
    {Append(d, x) : d \in {y \in DOMAIN f : f[y].kind = "dir" /\ Len(y) < MaxDepth},
                    x \in Names} \ DOMAIN f

RECURSIVE Grow(_, _)
\* the filesystems of S and those with up to n more entries
Grow(S, n) ==
    IF n = 0 THEN S
    ELSE Grow(S \cup UNION {{f @@ (q :> e) : q \in Slots(f), e \in InitEntries} : f \in S},
              n - 1)

\* the root folder, empty
EmptyFS == (Root :> Dir)

\* every filesystem of at most MaxEntries entries, none deeper than MaxDepth
InitFS == Grow({EmptyFS}, MaxEntries)

NoCall == [op |-> "init", args |-> <<>>, exc |-> "", ret |-> None, out |-> <<>>]

\* the step of a call op(args) whose outcome is r
Call(op, args, r) ==
    /\ fs' = r.fs
    /\ pre' = fs
    /\ last' = [op |-> op, args |-> args, exc |-> r.exc, ret |-> r.ret, out |-> r.out]

Init ==
    /\ fs \in InitFS
    /\ pre = fs
    /\ last = NoCall

\* remove_folder asks for input only on an existing folder, with confirm and not force
Prompts(f, p, confirm, force) == Exists(f, p) /\ IsDir(f, p) /\ Asks(confirm, force)

RemoveFolder ==
    \E p \in ArgPaths, confirm \in BOOLEAN, force \in BOOLEAN, dry_run \in BOOLEAN,
       ord \in Orders :
        \E input \in IF Prompts(fs, p, confirm, force) THEN Inputs ELSE {NoInput} :
            Call("remove_folder",
                 [path |-> p, confirm |-> confirm, force |-> force,
                  dry_run |-> dry_run, input |-> input],
                 remove_folder(fs, p, confirm, force, dry_run, input, ord))

CopyFolder ==
    \E src \in ArgPaths, dst \in ArgPaths, overwrite \in BOOLEAN, ord \in Orders :
        Call("copy_folder", [src |-> src, dst |-> dst, overwrite |-> overwrite],
             copy_folder(fs, src, dst, overwrite, ord))

MoveFolder ==
    \E src \in ArgPaths, dst \in ArgPaths, overwrite \in BOOLEAN, ord \in Orders :
        Call("move_folder", [src |-> src, dst |-> dst, overwrite |-> overwrite],
             move_folder(fs, src, dst, overwrite, ord))

CopyFile ==
    \E src \in ArgPaths, dst \in ArgPaths, overwrite \in BOOLEAN :
        Call("copy_file", [src |-> src, dst |-> dst, overwrite |-> overwrite],
             copy_file(fs, src, dst, overwrite))

MoveFile ==
    \E src \in ArgPaths, dst \in ArgPaths, overwrite \in BOOLEAN, ord \in Orders :
        Call("move_file", [src |-> src, dst |-> dst, overwrite |-> overwrite],
             move_file(fs, src, dst, overwrite, ord))

CreateFolder ==
    \E p \in ArgPaths :
        Call("create_folder", [path |-> p], create_folder(fs, p))

RenameFolder ==
    \E old \in ArgPaths, new \in ArgPaths :
        Call("rename_folder", [old |-> old, new |-> new], rename_folder(fs, old, new))

RenameFile ==
    \E old \in ArgPaths, new \in ArgPaths :
        Call("rename_file", [old |-> old, new |-> new], rename_file(fs, old, new))

CreateSymlink ==
    \E target \in LinkTargets, link \in ArgPaths, overwrite \in BOOLEAN, ord \in Orders :
        Call("create_symlink", [target |-> target, link |-> link, overwrite |-> overwrite],
             create_symlink(fs, target, link, overwrite, ord))

\* the patterns and file names a search is given: "*", "a", "*.t", "", "/a"
Patterns == {<<"*">>, <<"a">>, <<"*", ".", "t">>, <<>>, <<"/", "a">>}

\* the extensions a search is given: "t", ".t", ""
Extensions == {<<"t">>, <<".", "t">>, <<>>}

ListFolders ==
    \E p \in ArgPaths, recursive \in BOOLEAN, ord \in Orders :
        Call("list_folders", [path |-> p, recursive |-> recursive],
             list_folders(fs, p, recursive, ord))

ListFiles ==
    \E p \in ArgPaths, recursive \in BOOLEAN, ord \in Orders :
        Call("list_files", [path |-> p, recursive |-> recursive],
             list_files(fs, p, recursive, ord))

ListPaths ==
    \E p \in ArgPaths, recursive \in BOOLEAN, include_files \in BOOLEAN,
       include_dirs \in BOOLEAN, ord \in Orders :
        Call("list_paths",
             [path |-> p, recursive |-> recursive, include_files |-> include_files,
              include_dirs |-> include_dirs],
             list_paths(fs, p, recursive, include_files, include_dirs, ord))

GlobPaths ==
    \E p \in ArgPaths, pattern \in Patterns, ord \in Orders :
        Call("glob_paths", [path |-> p, pattern |-> pattern],
             glob_paths(fs, p, pattern, ord))

RglobPaths ==
    \E p \in ArgPaths, pattern \in Patterns, ord \in Orders :
        Call("rglob_paths", [path |-> p, pattern |-> pattern],
             rglob_paths(fs, p, pattern, ord))

FindFilesByExtension ==
    \E p \in ArgPaths, extension \in Extensions, ord \in Orders :
        Call("find_files_by_extension", [path |-> p, extension |-> extension],
             find_files_by_extension(fs, p, extension, ord))

FindFilesByName ==
    \E p \in ArgPaths, filename \in Patterns, ord \in Orders :
        Call("find_files_by_name", [path |-> p, filename |-> filename],
             find_files_by_name(fs, p, filename, ord))

CountFiles ==
    \E p \in ArgPaths, recursive \in BOOLEAN, ord \in Orders :
        Call("count_files", [path |-> p, recursive |-> recursive],
             Res(fs, "", count_files(fs, p, recursive, ord), <<>>))

CountFolders ==
    \E p \in ArgPaths, recursive \in BOOLEAN, ord \in Orders :
        Call("count_folders", [path |-> p, recursive |-> recursive],
             Res(fs, "", count_folders(fs, p, recursive, ord), <<>>))

CountEntries ==
    \E p \in ArgPaths, recursive \in BOOLEAN, ord \in Orders :
        Call("count_entries", [path |-> p, recursive |-> recursive],
             Res(fs, "", count_entries(fs, p, recursive, ord), <<>>))

\* the texts written: every str of at most MaxTextLen of these characters
TextChars == {LF, CR, 104, 233}

Texts == UNION {TextsOfLen(TextChars, n) : n \in 0..MaxTextLen}

Encodings == {"utf-8", "ascii"}

\* os.linesep: "\n" on POSIX, "\r\n" on Windows
LineSeps == {<<LF>>, <<CR, LF>>}

WriteText ==
    \E p \in ArgPaths, data \in Texts, encoding \in Encodings, linesep \in LineSeps :
        Call("write_text",
             [path |-> p, data |-> data, encoding |-> encoding, linesep |-> linesep],
             write_text(fs, p, data, encoding, None, TRUE, linesep))

ReadText ==
    \E p \in ArgPaths, encoding \in Encodings :
        Call("read_text", [path |-> p, encoding |-> encoding],
             read_text(fs, p, encoding))

\* the root folder alone
InitEmpty ==
    /\ fs = EmptyFS
    /\ pre = fs
    /\ last = NoCall

GetFolderInfo ==
    \E p \in ArgPaths, ord \in Orders :
        Call("get_folder_info", [path |-> p], get_folder_info(fs, p, ord))

\* the paths of a sequence of calls that builds a tree below the root
SeqPaths == UNION {PathsOfLen(n) : n \in 1..(MaxDepth + 1)}

\* the texts a sequence of calls writes: "hi", "\n"
SeqTexts == {<<104, 105>>, <<LF>>}

\* a call of a sequence is taken while the tree stays within MaxSeqEntries
\* entries below the root
Fits(r) == Cardinality(DOMAIN r.fs) <= MaxSeqEntries + 1

SeqCall(op, args, r) == Fits(r) /\ Call(op, args, r)

SeqEnsureDir ==
    \E p \in SeqPaths :
        SeqCall("ensure_dir", [path |-> p], ensure_dir(fs, p, TRUE, TRUE))

SeqWriteText ==
    \E p \in SeqPaths, data \in SeqTexts, linesep \in LineSeps :
        SeqCall("write_text",
                [path |-> p, data |-> data, encoding |-> "utf-8", linesep |-> linesep],
                write_text(fs, p, data, "utf-8", None, TRUE, linesep))

SeqRemoveFile ==
    \E p \in SeqPaths :
        SeqCall("remove_file", [path |-> p], remove_file(fs, p, FALSE))

SeqRemoveFolder ==
    \E p \in SeqPaths, ord \in Orders :
        SeqCall("remove_folder", [path |-> p],
                remove_folder(fs, p, TRUE, TRUE, FALSE, NoInput, ord))

SeqGetFolderInfo ==
    \E p \in SeqPaths \cup {Root}, ord \in Orders :
        SeqCall("get_folder_info", [path |-> p], get_folder_info(fs, p, ord))

\* ensure_dir, write_text, remove_file, forced remove_folder and get_folder_info
\* in any order, from an empty folder
NextSeq ==
    \/ SeqEnsureDir
    \/ SeqWriteText
    \/ SeqRemoveFile
    \/ SeqRemoveFolder
    \/ SeqGetFolderInfo

SpecSeq == InitEmpty /\ [][NextSeq]_vars

\* no call has been made yet
Fresh == last.op = "init"

\* one call of remove_folder, from any filesystem
NextRemove == Fresh /\ RemoveFolder

SpecRemove == Init /\ [][NextRemove]_vars

\* one call of a copy or move function, from any filesystem
NextCopyMove ==
    \/ Fresh /\ CopyFolder
    \/ Fresh /\ MoveFolder
    \/ Fresh /\ CopyFile
    \/ Fresh /\ MoveFile

SpecCopyMove == Init /\ [][NextCopyMove]_vars

\* calls of create_folder, one after another, from any filesystem
NextCreate == CreateFolder

SpecCreate == Init /\ [][NextCreate]_vars

\* one call of rename_folder or rename_file, from any filesystem
NextRename ==
    \/ Fresh /\ RenameFolder
    \/ Fresh /\ RenameFile

SpecRename == Init /\ [][NextRename]_vars

\* one call of create_symlink, from any filesystem
NextSymlink == Fresh /\ CreateSymlink

SpecSymlink == Init /\ [][NextSymlink]_vars

\* one call of an enumerating or counting function, from any filesystem
NextEnum ==
    \/ Fresh /\ ListFolders
    \/ Fresh /\ ListFiles
    \/ Fresh /\ ListPaths
    \/ Fresh /\ GlobPaths
    \/ Fresh /\ RglobPaths
    \/ Fresh /\ FindFilesByExtension
    \/ Fresh /\ FindFilesByName
    \/ Fresh /\ CountFiles
    \/ Fresh /\ CountFolders
    \/ Fresh /\ CountEntries

SpecEnum == Init /\ [][NextEnum]_vars

\* write_text, then read_text
NextText ==
    \/ Fresh /\ WriteText
    \/ last.op = "write_text" /\ ReadText

SpecText == InitEmpty /\ [][NextText]_vars

\* one call, from any filesystem
Next ==
    \/ NextRemove
    \/ NextCopyMove
    \/ Fresh /\ CreateFolder
    \/ NextRename
    \/ NextSymlink
    \/ NextEnum
    \/ Fresh /\ WriteText
    \/ Fresh /\ ReadText
    \/ Fresh /\ GetFolderInfo
    \/ Fresh /\ SeqEnsureDir
    \/ Fresh /\ SeqWriteText
    \/ Fresh /\ SeqRemoveFile
    \/ Fresh /\ SeqRemoveFolder
    \/ Fresh /\ SeqGetFolderInfo

Spec == Init /\ [][Next]_vars

(***************************************************************************)
(* remove_folder: the confirmation and the dry run.                        *)
(***************************************************************************)
\* the call made was remove_folder(F), confirm=True and force=False, on an
\* existing folder F that was not empty, and an answer was read
C1_Answered ==
    /\ last.op = "remove_folder"
    /\ last.args.confirm /\ ~last.args.force
    /\ Exists(pre, last.args.path) /\ IsDir(pre, last.args.path)
    /\ ChildrenOf(pre, Real(pre, last.args.path)) # {}
    /\ ~last.args.input.eof

\* the answer typed is y or Y, with any blanks around it
C1_SaysYes ==
    LET t == last.args.input.text IN
    \E i \in DOMAIN t : t[i] \in {"y", "Y"} /\ \A j \in DOMAIN t \ {i} : t[j] = " "

\* C1 as stated: remove_folder(F) with confirm=True, force=False on an existing
\* non-empty folder deletes nothing when the answer typed is anything other
\* than "y", for either value of dry_run
C1_AnyOtherAnswer ==
    (C1_Answered /\ last.args.input.text # <<"y">>) => fs = pre

\* C1 amended: remove_folder(F) with confirm=True, force=False on an existing
\* non-empty folder deletes nothing, and reports the cancellation, when the
\* answer with its surrounding blanks removed and in lower case is not "y",
\* for either value of dry_run
C1_Declined ==
    (C1_Answered /\ ~C1_SaysYes) =>
        /\ fs = pre
        /\ last.exc = ""
        /\ last.out[Len(last.out)] = <<"Operation cancelled.">>

\* the answer "n" was given for a folder that holds something, no dry run
C1_Witness ==
    /\ C1_Answered
    /\ last.args.input.text = <<"n">>
    /\ ~last.args.dry_run
    /\ fs = pre

\* the prompt of remove_folder is among what the call printed
C5_Asked == \E i \in DOMAIN last.out : last.out[i][1] = "[remove_folder] Continue y/n"

\* C5: remove_folder with dry_run=True leaves the filesystem as it was, for
\* every confirm, force, answer and target; and with force=True or
\* confirm=False it asks nothing, does not raise, and on an existing folder
\* reports what would be removed
C5_DryRun ==
    (last.op = "remove_folder" /\ last.args.dry_run) =>
        /\ fs = pre
        /\ (last.args.force \/ ~last.args.confirm) =>
              /\ ~C5_Asked
              /\ last.exc = ""
              /\ (Exists(pre, last.args.path) /\ IsDir(pre, last.args.path)) =>
                    last.out = <<<<"[dry_run] Folder would be removed", last.args.path>>>>

\* a forced dry run on a folder that holds something
C5_Witness ==
    /\ last.op = "remove_folder"
    /\ last.args.dry_run /\ last.args.force /\ last.args.confirm
    /\ IsDir(pre, last.args.path)
    /\ ChildrenOf(pre, Real(pre, last.args.path)) # {}
    /\ last.out = <<<<"[dry_run] Folder would be removed", last.args.path>>>>
    /\ fs = pre

\* a dry run that was confirmed with "y" on a folder that holds something
C5_WitnessAnswered ==
    /\ C1_Answered
    /\ last.args.dry_run
    /\ last.args.input.text = <<"y">>
    /\ fs = pre

(***************************************************************************)
(* copy_folder, move_folder, copy_file, move_file: an existing             *)
(* destination.                                                            *)
(***************************************************************************)
\* the call made was one of the two folder operations
C2_FolderOp == last.op \in {"copy_folder", "move_folder"}

\* the call made was one of the two file operations
C2_FileOp == last.op \in {"copy_file", "move_file"}

\* the source of the call was valid: an existing folder for a folder
\* operation, an existing regular file for a file operation
C2_ValidSource ==
    \/ C2_FolderOp /\ Exists(pre, last.args.src) /\ IsDir(pre, last.args.src)
    \/ C2_FileOp /\ Exists(pre, last.args.src) /\ IsFile(pre, last.args.src)

\* C2: copy_folder, move_folder, copy_file and move_file with overwrite=False,
\* a valid source and a destination that exists (file or folder) change
\* nothing, do not raise, and report the conflict
C2_NoOverwrite ==
    (C2_ValidSource /\ ~last.args.overwrite /\ Exists(pre, last.args.dst)) =>
        /\ fs = pre
        /\ last.exc = ""
        /\ last.out = <<<<IF C2_FolderOp THEN "Destination folder already exists"
                          ELSE "Destination file already exists",
                          last.args.dst>>>>

\* a folder operation refused because a regular file is at the destination
C2_Witness ==
    /\ last.op = "move_folder" /\ C2_ValidSource /\ ~last.args.overwrite
    /\ IsFile(pre, last.args.dst)
    /\ last.args.dst # last.args.src
    /\ fs = pre

\* no entry of f is a symbolic link
NoLinks(f) == \A q \in DOMAIN f : f[q].kind # "link"

\* what the folder or file at p holds: every entry at or below p, by its
\* path relative to p
Holds(f, p) ==
    [r \in {SubSeq(q, Len(p) + 1, Len(q)) : q \in {x \in DOMAIN f : IsPrefix(p, x)}}
        |-> f[p \o r]]

\* the call made had overwrite=True, a valid source, and an existing
\* destination of the source's kind at a path that is neither the source nor
\* nested with it, in a filesystem without symbolic links
C3_Case ==
    /\ C2_ValidSource /\ last.args.overwrite
    /\ NoLinks(pre)
    /\ \/ C2_FolderOp /\ IsDir(pre, last.args.dst)
       \/ C2_FileOp /\ IsFile(pre, last.args.dst)
    /\ ~IsPrefix(last.args.src, last.args.dst)
    /\ ~IsPrefix(last.args.dst, last.args.src)

\* C3 as stated: with overwrite=True, a valid source and an existing
\* destination of the same kind, distinct from and not nested with the
\* source, the destination afterwards holds exactly what the source held:
\* nothing that was only in the destination survives
C3_DestinationCleared ==
    C3_Case => Holds(fs, last.args.dst) = Holds(pre, last.args.src)

\* C3 without copy_folder: move_folder, copy_file and move_file leave the
\* destination holding exactly what the source held
C3_OthersCleared ==
    (C3_Case /\ last.op # "copy_folder") =>
        /\ last.exc = ""
        /\ Holds(fs, last.args.dst) = Holds(pre, last.args.src)

(***************************************************************************)
(* create_folder called twice.                                             *)
(***************************************************************************)
\* the path P of the call about to be made is, before the call, one of:
\* absent with every parent absent or a folder, an existing folder, an
\* existing regular file; and the filesystem holds no symbolic link
C4_Stated(P) ==
    /\ NoLinks(fs)
    /\ \A i \in 1..(Len(P) - 1) : Kind(fs, SubSeq(P, 1, i)) \in {"none", "dir"}

\* C4 as stated: create_folder(P) never fails and leaves a folder at P, the
\* first time and the second, and the second call changes nothing
C4_Idempotent ==
    [][(last'.op = "create_folder" /\ C4_Stated(last'.args.path)) =>
          /\ last'.exc = ""
          /\ IsDir(fs', last'.args.path)
          /\ (last.op = "create_folder" /\ last.args.path = last'.args.path) => fs' = fs
      ]_vars

\* C4 where a folder can be: when P is absent or a folder, and every parent
\* of P is absent or a folder, create_folder(P) never fails and leaves a
\* folder at P, and the second call changes nothing
C4_IdempotentWhereCreatable ==
    [][(/\ last'.op = "create_folder" /\ C4_Stated(last'.args.path)
        /\ Kind(fs, last'.args.path) # "file") =>
          /\ last'.exc = ""
          /\ IsDir(fs', last'.args.path)
          /\ (last.op = "create_folder" /\ last.args.path = last'.args.path) => fs' = fs
      ]_vars

(***************************************************************************)
(* write_text, then read_text.                                             *)
(***************************************************************************)
\* C6 as stated: after write_text(P, s) has written s, read_text(P) with the
\* same encoding returns s
C6_RoundTrip ==
    [][(/\ last.op = "write_text" /\ last.exc = ""
        /\ last'.op = "read_text"
        /\ last'.args.path = last.args.path
        /\ last'.args.encoding = last.args.encoding) =>
          (last'.exc = "" /\ last'.ret = last.args.data)
      ]_vars

\* C6 without "\r": a text that holds no carriage return is read back as written
C6_RoundTripNoCR ==
    [][(/\ last.op = "write_text" /\ last.exc = ""
        /\ \A i \in DOMAIN last.args.data : last.args.data[i] # CR
        /\ last'.op = "read_text"
        /\ last'.args.path = last.args.path
        /\ last'.args.encoding = last.args.encoding) =>
          (last'.exc = "" /\ last'.ret = last.args.data)
      ]_vars

(***************************************************************************)
(* get_folder_info after a sequence of calls.                              *)
(***************************************************************************)
\* the regular files at any depth below the folder R
FilesBelow(f, R) == {q \in Below(f, R) : f[q].kind = "file"}

\* the folders at any depth below the folder R
FoldersBelow(f, R) == {q \in Below(f, R) : f[q].kind = "dir"}

RECURSIVE BytesOf(_, _)
\* the sum of the byte sizes of the files S
BytesOf(f, S) ==
    IF S = {} THEN 0
    ELSE LET q == CHOOSE x \in S : TRUE IN Len(f[q].data) + BytesOf(f, S \ {q})

\* get_folder_info(R) on an existing folder R is an exact snapshot
C7_Exact ==
    (last.op = "get_folder_info" /\ Kind(fs, last.args.path) = "dir") =>
        LET R == last.args.path IN
        /\ last.exc = ""
        /\ last.ret.exists
        /\ last.ret.file_count = Cardinality(FilesBelow(fs, R))
        /\ last.ret.folder_count = Cardinality(FoldersBelow(fs, R))
        /\ last.ret.size = BytesOf(fs, FilesBelow(fs, R))
        /\ \A ord \in Orders : last.ret.size = get_folder_size(fs, R, ord)
        /\ Below(fs, R) = {} => last.ret.size = 0

\* a new file of N bytes raises the size of every folder above it by N
C7_Added ==
    (/\ last.op = "write_text" /\ last.exc = ""
     /\ Kind(pre, last.args.path) = "none") =>
        \A R \in DOMAIN pre, ord \in Orders :
            (pre[R].kind = "dir" /\ IsPrefix(R, last.args.path)) =>
                get_folder_size(fs, R, ord)
                    = get_folder_size(pre, R, ord) + Len(fs[last.args.path].data)

\* the tree of the example: a folder that holds a folder that holds a file
\* of the two bytes "hi"
C7_Example ==
    fs = (Root :> Dir) @@ (<<"a">> :> Dir) @@ (<<"a", "a">> :> Dir)
            @@ (<<"a", "a", "b.t">> :> File(<<104, 105>>))

\* C7: after any sequence of ensure_dir, write_text, remove_file and forced
\* remove_folder from an empty folder, get_folder_info(R) on an existing
\* folder R counts exactly the regular files and the folders at any depth
\* below R and its size is get_folder_size(R), the sum of the files' bytes
\* (0 for an empty folder); a new file of N bytes raises the size of every
\* folder above it by exactly N; and on the example tree the outer folder
\* has file_count 1, folder_count 1, size 2
C7_Snapshot ==
    /\ C7_Exact
    /\ C7_Added
    /\ (C7_Example /\ last.op = "get_folder_info" /\ last.args.path = <<"a">>) =>
          /\ last.ret.file_count = 1
          /\ last.ret.folder_count = 1
          /\ last.ret.size = 2

\* get_folder_info was called on the outer folder of the example tree
C7_Witness ==
    /\ C7_Example
    /\ last.op = "get_folder_info" /\ last.args.path = <<"a">>
    /\ last.ret.size = 2

(***************************************************************************)
(* rename_file, rename_folder.                                             *)
(***************************************************************************)
\* the call made was rename_file or rename_folder
C8_Renamed == last.op \in {"rename_file", "rename_folder"}

\* old existed with the right type: a folder for rename_folder, a regular
\* file for rename_file
C8_ValidOld ==
    \/ last.op = "rename_folder" /\ Exists(pre, last.args.old) /\ IsDir(pre, last.args.old)
    \/ last.op = "rename_file" /\ Exists(pre, last.args.old) /\ IsFile(pre, last.args.old)

\* the entry that old named, and the place that new names
C8_From == EntryOf(pre, last.args.old).path

C8_To == EntryOf(pre, last.args.new).path

\* old is gone, the place new names holds exactly what old held, and nothing
\* else has changed
C8_Moved ==
    /\ LStatKind(fs, last.args.old) = "none"
    /\ Holds(fs, C8_To) = Holds(pre, C8_From)
    /\ \A q \in DOMAIN pre :
          (~IsPrefix(C8_From, q) /\ ~IsPrefix(C8_To, q)) => (q \in DOMAIN fs /\ fs[q] = pre[q])
    /\ \A q \in DOMAIN fs : IsPrefix(C8_To, q) \/ q \in DOMAIN pre

\* the call refused: it returned without raising and changed nothing
C8_Refused == last.exc = "" /\ fs = pre

\* C8 as stated: the call refuses when something exists at new; when old
\* exists with the right type and nothing exists at new, old is absent
\* afterwards and new holds exactly what old held
C8_AsStated ==
    C8_Renamed =>
        /\ Exists(pre, last.args.new) => C8_Refused
        /\ (C8_ValidOld /\ ~Exists(pre, last.args.new)) => (last.exc = "" /\ C8_Moved)

\* old and new name one and the same directory entry: a symbolic link that
\* leads to old's target when followed from old, and that cannot be followed
\* from new because the way to it through new passes too many symbolic links
C8_SameEntry == EntryOf(pre, last.args.new).err = "" /\ C8_From = C8_To

\* the parent of new is an existing folder, new is not inside old, and a
\* real folder is not renamed onto a symbolic link that leads nowhere
C8_CanRename ==
    /\ EntryOf(pre, last.args.new).err = ""
    /\ ~IsPrefix(C8_From, C8_To)
    /\ Kind(pre, C8_From) = "dir" => Kind(pre, C8_To) = "none"

\* C8 amended: the call refuses when something exists at new. When old exists
\* with the right type and nothing exists at new: if old and new name the same
\* directory entry the call returns without raising and changes nothing; else
\* if the parent of new is an existing folder, new is not inside old and new is
\* not a dangling symbolic link while old is a real folder, old is absent
\* afterwards and new holds exactly what old held; otherwise the call raises
\* and changes nothing
C8_RefuseOrRename ==
    C8_Renamed =>
        /\ Exists(pre, last.args.new) => C8_Refused
        /\ (C8_ValidOld /\ ~Exists(pre, last.args.new)) =>
              IF C8_SameEntry THEN last.exc = "" /\ fs = pre
              ELSE IF C8_CanRename THEN last.exc = "" /\ C8_Moved
              ELSE last.exc # "" /\ fs = pre

\* a rename of an entry onto itself, reached through a longer chain of links
C8_WitnessSameEntry ==
    /\ C8_Renamed /\ C8_ValidOld /\ ~Exists(pre, last.args.new)
    /\ C8_SameEntry
    /\ last.exc = ""

\* a folder that holds something was renamed
C8_Witness ==
    /\ last.op = "rename_folder" /\ C8_ValidOld /\ ~Exists(pre, last.args.new)
    /\ ChildrenOf(pre, C8_From) # {}
    /\ last.exc = ""
    /\ fs # pre

\* a rename was refused because a regular file was at new
C8_WitnessRefused ==
    /\ last.op = "rename_folder" /\ C8_ValidOld
    /\ IsFile(pre, last.args.new)
    /\ C8_Refused

(***************************************************************************)
(* create_symlink with overwrite.                                          *)
(***************************************************************************)
\* the place link_path names
C9_At == EntryOf(pre, last.args.link).path

\* C9 as stated: create_symlink(target, link_path, overwrite=True), whatever
\* is at link_path (a regular file, a folder, a symbolic link to a file, to a
\* folder or to nothing), does not fail, leaves at link_path a symbolic link
\* to target, and deletes nothing but that entry and, for a real folder, what
\* was below it
C9_Overwrites ==
    (/\ last.op = "create_symlink" /\ last.args.overwrite
     /\ LStatKind(pre, last.args.link) # "none") =>
        /\ last.exc = ""
        /\ LStatKind(fs, last.args.link) = "link"
        /\ fs[C9_At] = Link(last.args.target)
        /\ \A q \in DOMAIN pre : ~IsPrefix(C9_At, q) => (q \in DOMAIN fs /\ fs[q] = pre[q])

\* C9 for what is not a symbolic link to a folder or to nothing: a regular
\* file, a symbolic link to a file, or a folder without symbolic links to
\* folders in it, is replaced by the link and nothing else is deleted
C9_OverwritesFilesAndFolders ==
    (/\ last.op = "create_symlink" /\ last.args.overwrite
     /\ LStatKind(pre, last.args.link) # "none"
     /\ \/ LStatKind(pre, last.args.link) = "file"
        \/ LStatKind(pre, last.args.link) = "link" /\ IsFile(pre, last.args.link)
        \/ /\ LStatKind(pre, last.args.link) = "dir"
           /\ \A q \in Below(pre, C9_At) : pre[q].kind = "link" => ~IsDir(pre, q)) =>
        /\ last.exc = ""
        /\ fs[C9_At] = Link(last.args.target)
        /\ \A q \in DOMAIN pre : ~IsPrefix(C9_At, q) => (q \in DOMAIN fs /\ fs[q] = pre[q])

(***************************************************************************)
(* Enumeration and counting on a root that is missing or a regular file.   *)
(***************************************************************************)
C10_Lists ==
    {"list_folders", "list_files", "list_paths", "glob_paths", "rglob_paths",
     "find_files_by_extension", "find_files_by_name"}

C10_Counts == {"count_files", "count_folders", "count_entries"}

\* the root of the call was missing or a regular file
C10_NoFolder == StatKind(pre, last.args.path) \in {"none", "file"}

\* C10 as stated: on a root that is missing or a regular file the seven
\* enumerations return the empty list and the three counts return 0, none
\* raises and none changes the filesystem
C10_NonFatalEmpty ==
    /\ (last.op \in C10_Lists /\ C10_NoFolder) =>
          (last.exc = "" /\ last.ret = <<>> /\ fs = pre)
    /\ (last.op \in C10_Counts /\ C10_NoFolder) =>
          (last.exc = "" /\ last.ret = 0 /\ fs = pre)

\* C10 without find_files_by_name: the other nine follow the policy
C10_NonFatalEmptyOthers ==
    last.op # "find_files_by_name" => C10_NonFatalEmpty

\* C10 for find_files_by_name given a relative name
C10_FindByRelativeName ==
    (last.op = "find_files_by_name" /\ ~IsAbsolute(last.args.filename)) => C10_NonFatalEmpty

(***************************************************************************)
(* copy_file, move_file, move_folder with overwrite=True: the source's     *)
(* data.                                                                   *)
(***************************************************************************)
\* the call made was copy_file, move_file or move_folder with overwrite=True
\* on an existing source of the right type, in a filesystem without symbolic
\* links
C11_Case ==
    /\ last.op \in {"copy_file", "move_file", "move_folder"}
    /\ C2_ValidSource /\ last.args.overwrite
    /\ NoLinks(pre)

\* what the source held before the call is afterwards at the source or at
\* the destination
C11_Kept ==
    \/ Holds(fs, last.args.src) = Holds(pre, last.args.src)
    \/ Holds(fs, last.args.dst) = Holds(pre, last.args.src)

\* the destination is neither the source nor nested with it
C11_Apart ==
    /\ ~IsPrefix(last.args.src, last.args.dst)
    /\ ~IsPrefix(last.args.dst, last.args.src)

\* C11 as stated: copy_file, move_file and move_folder with overwrite=True on
\* a valid source never lose the source's data, for every pair (src, dst),
\* dst equal to src and dst nested with src included: whether the call
\* returns or raises, what src held is afterwards at src or at dst
C11_SourceKept == C11_Case => C11_Kept

\* C11 for a destination apart from the source: what src held is afterwards
\* at src or at dst
C11_SourceKeptWhenApart == (C11_Case /\ C11_Apart) => C11_Kept

(***************************************************************************)
(* remove_folder with force=True: what is removed.                         *)
(***************************************************************************)
\* the folder the call was given, by its real path
C12_Folder == Real(pre, last.args.path)

\* the call made was remove_folder(F, force=True, dry_run=False) on an
\* existing folder F (a folder itself, not a symbolic link to one)
C12_Case ==
    /\ last.op = "remove_folder"
    /\ last.args.force /\ ~last.args.dry_run
    /\ Exists(pre, last.args.path) /\ LStatKind(pre, last.args.path) = "dir"

\* F and every descendant of F are absent
C12_Gone == \A q \in DOMAIN fs : ~IsPrefix(C12_Folder, q)

\* every entry outside the subtree rooted at F is as it was before the call
C12_OutsideKept ==
    \A q \in DOMAIN pre : ~IsPrefix(C12_Folder, q) => (q \in DOMAIN fs /\ fs[q] = pre[q])

\* no symbolic link below F leads to a folder
C12_NoFolderLinks ==
    \A q \in DOMAIN pre :
        (IsPrefix(C12_Folder, q) /\ pre[q].kind = "link") => ~IsDir(pre, q)

\* C12 as stated: remove_folder(F, force=True, dry_run=False) on an existing
\* folder F, whatever files, subfolders and symbolic links its tree holds,
\* returns; afterwards F and every descendant of F are absent and everything
\* outside the subtree rooted at F is as it was before the call
C12_RemovesOnlyTheTree ==
    C12_Case => (last.exc = "" /\ C12_Gone /\ C12_OutsideKept)

\* C12 for a tree in which no symbolic link leads to a folder
C12_RemovesTreeWithoutFolderLinks ==
    (C12_Case /\ C12_NoFolderLinks) => (last.exc = "" /\ C12_Gone /\ C12_OutsideKept)

====
